---- MODULE Spec2Model ----
(***************************************************************************)
(* Model of cpp_buffer: Buffer<T, 1u, std::shared_ptr<T>> (buffer.h), the  *)
(* Slice it hands out, and the bounds-check macro with its assert_hook     *)
(* (buffer_assert.h).                                                      *)
(*                                                                         *)
(* A T* is modelled as in the C++ abstract machine: a pair (allocation,    *)
(* element offset); the null pointer is allocation Null. size_t is an      *)
(* unsigned integer of SizeTBits bits. The build flags are compile-time    *)
(* inputs of the code that reads them, so the calls that depend on them    *)
(* take the build as an argument.                                          *)
(***************************************************************************)
EXTENDS Integers, Sequences, FiniteSets, TLC

\* ---------------------------------------------------------------- bounds
MaxBuffers == 2      \* Buffer objects alive at once
MaxSlices  == 1      \* Slice objects alive at once
MaxAllocs  == 2      \* arrays allocated in one run
MaxSize    == 3      \* largest element count requested
MaxStride  == 2      \* largest stride template argument
SizeTBits  == 4      \* width of size_t in the model

\* ------------------------------------------------------ program constants
SizeofT       == 4   \* sizeof(int), the element type the test uses
Null          == 0   \* nullptr
Indeterminate == -1  \* an element new T[n] left uninitialised

Values     == {0, 1}
BufferIds  == 1..MaxBuffers
SliceIds   == 1..MaxSlices
AllocIds   == 1..MaxAllocs

SizeTMod   == 2 ^ SizeTBits
SizeT(x)   == (x + SizeTMod) % SizeTMod
\* The smallest element count whose byte size does not fit size_t.
HugeN      == SizeTMod \div SizeofT
Sizes      == 0..MaxSize
TrustedSizes == Sizes \cup {HugeN}
Indices    == (0 - 1)..MaxSize
Strides    == 1..MaxStride
Builds     == [usesAssert : BOOLEAN, usesCassert : BOOLEAN, ndebug : BOOLEAN]

VARIABLES
    heap,     \* AllocIds -> the array and its shared_ptr control block
    buffers,  \* BufferIds -> a Buffer object, or NoBuffer
    slices,   \* SliceIds -> a Slice object, or NoSlice
    handle,   \* the caller's own ptr_t (Null when empty)
    ret       \* what the last call was and what it returned

vars == <<heap, buffers, slices, handle, ret>>

\* ------------------------------------------------------------------ heap
FreeBlock == [st |-> "free", count |-> 0, data |-> << >>, use |-> 0, rel |-> 0]

Live(h, a) == a # Null /\ h[a].st = "live"

\* new T[n]: n elements, none initialised, owned by one shared_ptr.
NewArray(n) ==
    [st |-> "live", count |-> n, data |-> [i \in 1..n |-> Indeterminate],
     use |-> 1, rel |-> 0]

\* new T[n] throws std::bad_array_new_length when n * sizeof(T) does not fit
\* size_t; the model allocates MaxAllocs arrays at most.
CanAllocate(h, n) ==
    /\ n * SizeofT < SizeTMod
    /\ \E a \in AllocIds : h[a].st = "free"
NextAlloc(h)   == CHOOSE a \in AllocIds :
                     h[a].st = "free" /\ \A c \in AllocIds : h[c].st = "free" => a <= c

\* A bare T* in place of the shared_ptr: a copy is not counted.
CopyPtr_noCount(h, p) == [heap |-> h, ptr |-> p]

\* Copying a shared_ptr: one more owner of the same control block.
CopyPtr(h, p) ==
    IF p = Null THEN [heap |-> h, ptr |-> Null]
    ELSE [heap |-> [h EXCEPT ![p].use = @ + 1], ptr |-> p]

\* Destroying a shared_ptr: the last owner runs the deleter, delete[] p.
ReleasePtr(h, p) ==
    IF p = Null THEN h
    ELSE IF h[p].use = 1
         THEN [h EXCEPT ![p] = [st |-> "released", count |-> 0, data |-> << >>,
                                use |-> 0, rel |-> h[p].rel + 1]]
         ELSE [h EXCEPT ![p].use = @ - 1]

\* --------------------------------------------------------------- objects
NoBuffer == [alive |-> FALSE, mMemory |-> Null, mSize |-> 0]
NoSlice  == [alive |-> FALSE, mMemory |-> Null, origin_offset |-> 0,
             extent |-> 0, stride |-> 1]

\* The size member left at its default, mSize = 0ul.
Buffer_defaultSize(p, n) == [alive |-> TRUE, mMemory |-> p, mSize |-> 0]

\* The members a Buffer constructor initialises.
Buffer(p, n) == [alive |-> TRUE, mMemory |-> p, mSize |-> n]

NoBuild == [usesAssert |-> FALSE, usesCassert |-> FALSE, ndebug |-> FALSE]
NoError == [kind |-> "none", what |-> ""]
NoRet == [op |-> "none", view |-> 0, args |-> << >>, outcome |-> "ok",
          base |-> Null, off |-> 0, val |-> 0,
          build |-> NoBuild, hook |-> 0, err |-> NoError]

\* abort() and a fault end the process.
Halted == ret.outcome \in {"abort", "crash"}

\* A new object takes the first unused slot: which slot it is has no meaning.
FirstDead(f, ids) == CHOOSE i \in ids : ~f[i].alive /\ \A j \in ids : ~f[j].alive => i <= j
Fresh(f, ids, i)  == (\E j \in ids : ~f[j].alive) /\ i = FirstDead(f, ids)

Init ==
    /\ heap = [a \in AllocIds |-> FreeBlock]
    /\ buffers = [b \in BufferIds |-> NoBuffer]
    /\ slices = [s \in SliceIds |-> NoSlice]
    /\ handle = Null
    /\ ret = NoRet

\* ---------------------------------------------------------- construction
\* Buffer() = default
BufferDefault(b) ==
    /\ ~Halted /\ Fresh(buffers, BufferIds, b)
    /\ buffers' = [buffers EXCEPT ![b] = Buffer(Null, 0)]
    /\ ret' = [NoRet EXCEPT !.op = "ctor_default", !.view = b]
    /\ UNCHANGED <<heap, slices, handle>>

\* Buffer(size_t n)
BufferNew(b, n) ==
    /\ ~Halted /\ Fresh(buffers, BufferIds, b) /\ CanAllocate(heap, n)
    /\ LET a == NextAlloc(heap) IN
         /\ heap' = [heap EXCEPT ![a] = NewArray(n)]
         /\ buffers' = [buffers EXCEPT ![b] = Buffer(a, n)]
    /\ ret' = [NoRet EXCEPT !.op = "ctor", !.view = b, !.args = <<n>>]
    /\ UNCHANGED <<slices, handle>>

\* Buffer(size_t n, allocator_t &a): a.allocate(n) hands back the ptr_t.
BufferFromAllocator(b, n) ==
    /\ ~Halted /\ Fresh(buffers, BufferIds, b) /\ CanAllocate(heap, n)
    /\ LET a == NextAlloc(heap) IN
         /\ heap' = [heap EXCEPT ![a] = NewArray(n)]
         /\ buffers' = [buffers EXCEPT ![b] = Buffer(a, n)]
    /\ ret' = [NoRet EXCEPT !.op = "ctor", !.view = b, !.args = <<n>>]
    /\ UNCHANGED <<slices, handle>>

\* The caller makes a shared array of its own: ptr_t p(new T[c], deleter).
MakeHandle(c) ==
    /\ ~Halted /\ handle = Null /\ CanAllocate(heap, c)
    /\ LET a == NextAlloc(heap) IN
         /\ heap' = [heap EXCEPT ![a] = NewArray(c)]
         /\ handle' = a
    /\ ret' = [NoRet EXCEPT !.op = "make_handle"]
    /\ UNCHANGED <<buffers, slices>>

\* The caller lets go of its ptr_t.
ResetHandle ==
    /\ ~Halted /\ handle # Null
    /\ heap' = ReleasePtr(heap, handle)
    /\ handle' = Null
    /\ ret' = [NoRet EXCEPT !.op = "reset_handle"]
    /\ UNCHANGED <<buffers, slices>>

\* Buffer(const ptr_t &p, size_t s): the size is taken as given.
BufferFromHandle(b, n) ==
    /\ ~Halted /\ Fresh(buffers, BufferIds, b)
    /\ LET r == CopyPtr(heap, handle) IN
         /\ heap' = r.heap
         /\ buffers' = [buffers EXCEPT ![b] = Buffer(r.ptr, n)]
    /\ ret' = [NoRet EXCEPT !.op = "ctor", !.view = b, !.args = <<n>>]
    /\ UNCHANGED <<slices, handle>>

\* Buffer(ptr_t &&other, size_t s): the caller's handle is left empty.
BufferFromHandleMove(b, n) ==
    /\ ~Halted /\ Fresh(buffers, BufferIds, b)
    /\ buffers' = [buffers EXCEPT ![b] = Buffer(handle, n)]
    /\ handle' = Null
    /\ ret' = [NoRet EXCEPT !.op = "ctor", !.view = b, !.args = <<n>>]
    /\ UNCHANGED <<heap, slices>>

\* A copy constructor that clones the array instead of sharing it.
BufferCopy_deep(b, src) ==
    /\ ~Halted /\ Fresh(buffers, BufferIds, b) /\ buffers[src].alive
    /\ CanAllocate(heap, 0)
    /\ LET a == NextAlloc(heap)
           p == buffers[src].mMemory IN
         /\ heap' = [heap EXCEPT ![a] = IF p = Null THEN NewArray(0)
                                        ELSE [heap[p] EXCEPT !.use = 1]]
         /\ buffers' = [buffers EXCEPT ![b] = Buffer(a, buffers[src].mSize)]
    /\ ret' = [NoRet EXCEPT !.op = "copy", !.view = b, !.args = <<src>>]
    /\ UNCHANGED <<slices, handle>>

\* Buffer(const Buffer &) = default
BufferCopy(b, src) ==
    /\ ~Halted /\ Fresh(buffers, BufferIds, b) /\ buffers[src].alive
    /\ LET r == CopyPtr(heap, buffers[src].mMemory) IN
         /\ heap' = r.heap
         /\ buffers' = [buffers EXCEPT ![b] = Buffer(r.ptr, buffers[src].mSize)]
    /\ ret' = [NoRet EXCEPT !.op = "copy", !.view = b, !.args = <<src>>]
    /\ UNCHANGED <<slices, handle>>

\* Buffer(Buffer &&) = default: the source keeps its mSize and loses its pointer.
BufferMove(b, src) ==
    /\ ~Halted /\ Fresh(buffers, BufferIds, b) /\ buffers[src].alive
    /\ buffers' = [buffers EXCEPT
                     ![b] = Buffer(buffers[src].mMemory, buffers[src].mSize),
                     ![src].mMemory = Null]
    /\ ret' = [NoRet EXCEPT !.op = "move", !.view = b, !.args = <<src>>]
    /\ UNCHANGED <<heap, slices, handle>>

\* Buffer &operator=(const Buffer &) = default
CopyAssign(b, src) ==
    /\ ~Halted /\ buffers[b].alive /\ buffers[src].alive /\ b # src
    /\ LET r == CopyPtr(heap, buffers[src].mMemory) IN
         /\ heap' = ReleasePtr(r.heap, buffers[b].mMemory)
         /\ buffers' = [buffers EXCEPT ![b] = Buffer(r.ptr, buffers[src].mSize)]
    /\ ret' = [NoRet EXCEPT !.op = "copy_assign", !.view = b, !.args = <<src>>]
    /\ UNCHANGED <<slices, handle>>

\* Buffer &operator=(Buffer &&) = default
MoveAssign(b, src) ==
    /\ ~Halted /\ buffers[b].alive /\ buffers[src].alive /\ b # src
    /\ heap' = ReleasePtr(heap, buffers[b].mMemory)
    /\ buffers' = [buffers EXCEPT
                     ![b] = Buffer(buffers[src].mMemory, buffers[src].mSize),
                     ![src].mMemory = Null]
    /\ ret' = [NoRet EXCEPT !.op = "move_assign", !.view = b, !.args = <<src>>]
    /\ UNCHANGED <<slices, handle>>

\* virtual ~Buffer() = default
Destroy(b) ==
    /\ ~Halted /\ buffers[b].alive
    /\ heap' = ReleasePtr(heap, buffers[b].mMemory)
    /\ buffers' = [buffers EXCEPT ![b] = NoBuffer]
    /\ ret' = [NoRet EXCEPT !.op = "destroy", !.view = b]
    /\ UNCHANGED <<slices, handle>>

\* ------------------------------------------------------------- accessors
\* size_t Buffer::size() const
size(buf) == buf.mSize

\* size_of(buffer): buffer.size() * sizeof(T), in size_t arithmetic
size_of(buf) == SizeT(size(buf) * SizeofT)

\* T* arithmetic: a pointer is (allocation, element offset).
Ptr(p, k) == [base |-> p, off |-> k]

\* begin(): mMemory.get()
begin(buf) == Ptr(buf.mMemory, 0)

\* One short: mMemory.get() + mSize - 1.
end_offByOne(buf) == Ptr(buf.mMemory, buf.mSize - 1)

\* end(): mMemory.get() + mSize
end(buf) == Ptr(buf.mMemory, buf.mSize)

\* &mMemory.get()[i]
ElementPtr(buf, i) == Ptr(buf.mMemory, i)

CallSize(b) ==
    /\ ~Halted /\ buffers[b].alive
    /\ ret' = [NoRet EXCEPT !.op = "size", !.view = b, !.val = size(buffers[b])]
    /\ UNCHANGED <<heap, buffers, slices, handle>>

CallSizeOf(b) ==
    /\ ~Halted /\ buffers[b].alive
    /\ ret' = [NoRet EXCEPT !.op = "size_of", !.view = b, !.val = size_of(buffers[b])]
    /\ UNCHANGED <<heap, buffers, slices, handle>>

CallBegin(b) ==
    /\ ~Halted /\ buffers[b].alive
    /\ ret' = [NoRet EXCEPT !.op = "begin", !.view = b,
                            !.base = begin(buffers[b]).base,
                            !.off = begin(buffers[b]).off]
    /\ UNCHANGED <<heap, buffers, slices, handle>>

CallEnd(b) ==
    /\ ~Halted /\ buffers[b].alive
    /\ ret' = [NoRet EXCEPT !.op = "end", !.view = b,
                            !.base = end(buffers[b]).base,
                            !.off = end(buffers[b]).off]
    /\ UNCHANGED <<heap, buffers, slices, handle>>

\* for (it = begin(); it != end(); ++it): ret is the cursor after ret.val increments.
IterStart(b) ==
    /\ ~Halted /\ buffers[b].alive
    /\ ret' = [NoRet EXCEPT !.op = "iter", !.view = b, !.val = 0,
                            !.base = begin(buffers[b]).base,
                            !.off = begin(buffers[b]).off]
    /\ UNCHANGED <<heap, buffers, slices, handle>>

IterNext ==
    /\ ~Halted /\ ret.op = "iter" /\ buffers[ret.view].alive
    /\ Ptr(ret.base, ret.off) # end(buffers[ret.view])
    /\ ret' = [ret EXCEPT !.val = @ + 1, !.off = @ + 1]
    /\ UNCHANGED <<heap, buffers, slices, handle>>

\* ----------------------------------------------------------- bounds check
OUT_OF_RANGE_STRING == "Buffer access out of bounds"

FormatBufferSize == 1024

\* std::snprintf(buffer, sizeof(buffer), formatString, file, line, condition,
\* conditionString): at most sizeof(buffer) - 1 characters are kept.
Format(file, line, condition, text) ==
    LET full == file \o ":" \o ToString(line)
                \o " buffer assert condition failed. Got " \o ToString(condition)
                \o " from \"" \o text \o "\""
    IN  IF Len(full) < FormatBufferSize THEN full
        ELSE SubSeq(full, 1, FormatBufferSize - 1)

\* The body of the try block: what it throws. `fails` is an exception raised
\* before the throw expression completes (building the error object).
TryBlock(file, line, condition, text, fails) ==
    IF fails THEN [kind |-> "bad_alloc", what |-> ""]
    ELSE [kind |-> "OutOfRangeError", what |-> Format(file, line, condition, text)]

\* catch(...) { throw; }: the handler passes on what it caught.
CatchAll_rethrow(e) == e

\* catch(...) { throw OutOfRangeError(OUT_OF_RANGE_STRING); }
CatchAll(e) == [kind |-> "OutOfRangeError", what |-> OUT_OF_RANGE_STRING]

\* assert_hook: everything the try block throws lands in catch(...).
assert_hook(file, line, condition, text, fails) ==
    CatchAll(TryBlock(file, line, condition, text, fails))

\* assert(cond) of <cassert>: compiled out under NDEBUG, abort() otherwise.
CAssert(build, cond) ==
    IF build.ndebug THEN "skipped" ELSE IF cond THEN "passed" ELSE "abort"

Passed == [hook |-> 0, outcome |-> "ok", err |-> NoError]

\* The host assertion the CPPBUFFER_ASSERT_USES_CASSERT branch delegates to.
HostAssert(build, cond) ==
    IF CAssert(build, cond) = "abort" THEN [Passed EXCEPT !.outcome = "abort"]
    ELSE Passed

\* The #elif CPPBUFFER_USES_ASSERT branch: the hook is called when cond is false,
\* with the (false) value of the condition.
HookAssert(cond, file, line, text, fails) ==
    IF ~cond
    THEN [hook |-> 1, outcome |-> "raise",
          err |-> assert_hook(file, line, 0, text, fails)]
    ELSE Passed

\* #define cpp_buffer_assert(cond_): the #if chain picks one expansion.
cpp_buffer_assert(build, cond, file, line, text, fails) ==
    IF build.usesAssert /\ build.usesCassert THEN HostAssert(build, cond)
    ELSE IF build.usesAssert THEN HookAssert(cond, file, line, text, fails)
    ELSE Passed

\* Inputs of the check: source files (the second is longer than the format
\* buffer), the lines of the two asserts, condition texts.
RECURSIVE Repeat(_, _)
Repeat(str, n) == IF n = 0 THEN "" ELSE str \o Repeat(str, n - 1)

ShortFile == "cpp_buffer/buffer.h"
LongFile  == Repeat("include/", 130) \o "buffer.h"
Files     == {ShortFile, LongFile}
Lines     == {147, 154}
Texts     == {"i >= 0 && static_cast<size_t>(i) < mSize", "k < extent"}

\* A statement cpp_buffer_assert(cond) in a build.
CallAssert(build, cond, file, line, text, fails) ==
    /\ ~Halted
    /\ LET r == cpp_buffer_assert(build, cond, file, line, text, fails) IN
         ret' = [NoRet EXCEPT !.op = "assert", !.build = build,
                              !.args = <<cond, file, line, text, fails>>,
                              !.hook = r.hook, !.outcome = r.outcome, !.err = r.err]
    /\ UNCHANGED <<heap, buffers, slices, handle>>

\* A direct call of assert_hook; it has no normal return.
CallHook(file, line, condition, text, fails) ==
    /\ ~Halted
    /\ ret' = [NoRet EXCEPT !.op = "hook", !.hook = 1, !.outcome = "raise",
                            !.args = <<condition # 0, file, line, text, fails>>,
                            !.err = assert_hook(file, line, condition, text, fails)]
    /\ UNCHANGED <<heap, buffers, slices, handle>>

\* --------------------------------------------------------- element access
\* The element p[k] exists: p owns a live array of more than k elements.
Addressable(h, p, k) == Live(h, p) /\ k >= 0 /\ k < h[p].count

\* i >= 0 && static_cast<size_t>(i) < mSize
InBounds(buf, i) == i >= 0 /\ i < buf.mSize

\* T &operator[](int i), const T &operator[](int i) const: the check.
Subscript(build, buf, i) == CAssert(build, InBounds(buf, i))

\* Loading p[k]. Outside every live array the behaviour is undefined: a fault,
\* or whatever lies at that address.
Load(r0, h, p, k) ==
    IF Addressable(h, p, k)
    THEN {[r0 EXCEPT !.base = p, !.off = k, !.val = x] :
            x \in {y \in Values : h[p].data[k + 1] \in {y, Indeterminate}}}
    ELSE {[r0 EXCEPT !.outcome = "crash"]}
         \cup {[r0 EXCEPT !.outcome = "garbage", !.val = x] : x \in Values}

\* Storing x to p[k]. Outside every live array the behaviour is undefined: a
\* fault, or a store that lands in no array of the model.
Store(r0, h, p, k, x) ==
    IF Addressable(h, p, k)
    THEN {[heap |-> [h EXCEPT ![p].data[k + 1] = x],
           ret |-> [r0 EXCEPT !.base = p, !.off = k]]}
    ELSE {[heap |-> h, ret |-> [r0 EXCEPT !.outcome = o]] : o \in {"crash", "garbage"}}

\* x = buffer[i]
SubscriptRead(build, b, i) ==
    /\ ~Halted /\ buffers[b].alive
    /\ LET buf == buffers[b]
           r0  == [NoRet EXCEPT !.op = "read", !.view = b, !.args = <<i>>,
                                !.build = build] IN
         IF Subscript(build, buf, i) = "abort"
         THEN ret' = [r0 EXCEPT !.outcome = "abort"]
         ELSE ret' \in Load(r0, heap, ElementPtr(buf, i).base, ElementPtr(buf, i).off)
    /\ UNCHANGED <<heap, buffers, slices, handle>>

\* buffer[i] = x
SubscriptWrite(build, b, i, x) ==
    /\ ~Halted /\ buffers[b].alive
    /\ LET buf == buffers[b]
           r0  == [NoRet EXCEPT !.op = "write", !.view = b, !.args = <<i>>,
                                !.val = x, !.build = build] IN
         IF Subscript(build, buf, i) = "abort"
         THEN ret' = [r0 EXCEPT !.outcome = "abort"] /\ heap' = heap
         ELSE \E w \in Store(r0, heap, ElementPtr(buf, i).base,
                             ElementPtr(buf, i).off, x) :
                 heap' = w.heap /\ ret' = w.ret
    /\ UNCHANGED <<buffers, slices, handle>>

\* ------------------------------------------------------------------ slices
\* Slice(handle, size, begin, end, stride): a view of [begin, end) that keeps
\* its own copy of the handle.
SliceCtor(p, n, b, e, s) ==
    [alive |-> TRUE, mMemory |-> p, origin_offset |-> b,
     extent |-> SizeT(e - b), stride |-> s]

\* Slice::size()
slice_size(sl) == sl.extent

\* origin_offset + index * stride
SliceIndex(sl, k) == sl.origin_offset + k * sl.stride

\* The stride template argument dropped on the way to the Slice.
SliceArgs_noStride(buf, b, e, s) ==
    [p |-> buf.mMemory, n |-> buf.mSize, b |-> b, e |-> e, s |-> 1]

\* What Buffer::slice<s>(begin, end) passes on: (mMemory, mSize, begin, end, s).
SliceArgs(buf, b, e, s) ==
    [p |-> buf.mMemory, n |-> buf.mSize, b |-> b, e |-> e, s |-> s]

\* A destructive slice: the buffer itself is cut down to the range.
slice_truncating(b, sl, bg, en, s) ==
    /\ ~Halted /\ buffers[b].alive /\ Fresh(slices, SliceIds, sl)
    /\ LET r == CopyPtr(heap, buffers[b].mMemory) IN
         /\ heap' = r.heap
         /\ slices' = [slices EXCEPT
                         ![sl] = [alive |-> TRUE, mMemory |-> r.ptr,
                                  origin_offset |-> bg, extent |-> SizeT(en - bg),
                                  stride |-> s]]
    /\ buffers' = [buffers EXCEPT ![b].mSize = SizeT(en - bg)]
    /\ ret' = [NoRet EXCEPT !.op = "slice", !.view = sl, !.args = <<b, bg, en, s>>]
    /\ UNCHANGED handle

\* Slice<T, s, ptr_t> Buffer::slice<s>(size_t begin, size_t end)
slice(b, sl, bg, en, s) ==
    /\ ~Halted /\ buffers[b].alive /\ Fresh(slices, SliceIds, sl)
    /\ LET a == SliceArgs(buffers[b], bg, en, s)
           r == CopyPtr(heap, a.p) IN
         /\ heap' = r.heap
         /\ slices' = [slices EXCEPT ![sl] = SliceCtor(r.ptr, a.n, a.b, a.e, a.s)]
    /\ ret' = [NoRet EXCEPT !.op = "slice", !.view = sl, !.args = <<b, bg, en, s>>]
    /\ UNCHANGED <<buffers, handle>>

\* ~Slice()
DestroySlice(sl) ==
    /\ ~Halted /\ slices[sl].alive
    /\ heap' = ReleasePtr(heap, slices[sl].mMemory)
    /\ slices' = [slices EXCEPT ![sl] = NoSlice]
    /\ ret' = [NoRet EXCEPT !.op = "destroy_slice", !.view = sl]
    /\ UNCHANGED <<buffers, handle>>

\* Slice::operator[]: the check every indexing operation goes through.
SliceCheck(build, sl, k) ==
    cpp_buffer_assert(build, k >= 0 /\ k < sl.extent, ShortFile, 147,
                      "k < extent", FALSE)

\* x = slice[k]
SliceRead(build, sl, k) ==
    /\ ~Halted /\ slices[sl].alive
    /\ LET v  == slices[sl]
           c  == SliceCheck(build, v, k)
           r0 == [NoRet EXCEPT !.op = "slice_read", !.view = sl, !.args = <<k>>,
                                !.build = build, !.hook = c.hook, !.err = c.err] IN
         IF c.outcome # "ok"
         THEN ret' = [r0 EXCEPT !.outcome = c.outcome]
         ELSE ret' \in Load(r0, heap, v.mMemory, SliceIndex(v, k))
    /\ UNCHANGED <<heap, buffers, slices, handle>>

\* slice[k] = x
SliceWrite(build, sl, k, x) ==
    /\ ~Halted /\ slices[sl].alive
    /\ LET v  == slices[sl]
           c  == SliceCheck(build, v, k)
           r0 == [NoRet EXCEPT !.op = "slice_write", !.view = sl, !.args = <<k>>,
                                !.val = x, !.build = build, !.hook = c.hook,
                                !.err = c.err] IN
         IF c.outcome # "ok"
         THEN ret' = [r0 EXCEPT !.outcome = c.outcome] /\ heap' = heap
         ELSE \E w \in Store(r0, heap, v.mMemory, SliceIndex(v, k), x) :
                 heap' = w.heap /\ ret' = w.ret
    /\ UNCHANGED <<buffers, slices, handle>>

\* ---------------------------------------------------------- specifications
\* Every way to make, copy, move, assign and destroy a Buffer.
Construct ==
    \/ \E b \in BufferIds : BufferDefault(b)
    \/ \E b \in BufferIds, n \in Sizes : BufferNew(b, n)
    \/ \E b \in BufferIds, n \in Sizes : BufferFromAllocator(b, n)
    \/ \E c \in Sizes : MakeHandle(c)
    \/ ResetHandle
    \/ \E b \in BufferIds, n \in TrustedSizes : BufferFromHandle(b, n)
    \/ \E b \in BufferIds, n \in TrustedSizes : BufferFromHandleMove(b, n)
    \/ \E b, src \in BufferIds : BufferCopy(b, src)
    \/ \E b, src \in BufferIds : BufferMove(b, src)
    \/ \E b, src \in BufferIds : CopyAssign(b, src)
    \/ \E b, src \in BufferIds : MoveAssign(b, src)
    \/ \E b \in BufferIds : Destroy(b)

\* Ownership: buffers of every origin and the slices cut from them.
Next ==
    \/ Construct
    \/ \E b \in BufferIds, sl \in SliceIds : slice(b, sl, 0, size(buffers[b]), 1)
    \/ \E sl \in SliceIds : DestroySlice(sl)

Spec == Init /\ [][Next]_vars

\* The state after `Buffer<int> buffer(n);`
InitView ==
    /\ \E n \in Sizes :
          /\ heap = [a \in AllocIds |-> IF a = 1 THEN NewArray(n) ELSE FreeBlock]
          /\ buffers = [b \in BufferIds |-> IF b = 1 THEN Buffer(1, n) ELSE NoBuffer]
    /\ slices = [s \in SliceIds |-> NoSlice]
    /\ handle = Null
    /\ ret = [NoRet EXCEPT !.op = "ctor", !.view = 1, !.args = <<size(buffers[1])>>]

\* The state after `Buffer<int> buffer;`
InitDefault ==
    /\ heap = [a \in AllocIds |-> FreeBlock]
    /\ buffers = [b \in BufferIds |-> IF b = 1 THEN Buffer(Null, 0) ELSE NoBuffer]
    /\ slices = [s \in SliceIds |-> NoSlice]
    /\ handle = Null
    /\ ret = [NoRet EXCEPT !.op = "ctor_default", !.view = 1]

\* The builds whose bounds check is the assertion hook.
HookBuilds == {build \in Builds : build.usesAssert /\ ~build.usesCassert}

\* One buffer: everything that can be called on it, built with the hook strategy.
NextBuffer ==
    \/ \E b \in BufferIds : CallSize(b)
    \/ \E b \in BufferIds : CallSizeOf(b)
    \/ \E b \in BufferIds : CallBegin(b)
    \/ \E b \in BufferIds : CallEnd(b)
    \/ \E b \in BufferIds : IterStart(b)
    \/ IterNext
    \/ \E build \in HookBuilds, b \in BufferIds, i \in Indices :
          SubscriptRead(build, b, i)
    \/ \E build \in HookBuilds, b \in BufferIds, i \in Indices, x \in Values :
          SubscriptWrite(build, b, i, x)
    \/ \E b \in BufferIds, sl \in SliceIds, bg, en \in Sizes, s \in Strides :
          slice(b, sl, bg, en, s)
    \/ \E sl \in SliceIds : DestroySlice(sl)

SpecBuffer == (InitView \/ InitDefault) /\ [][NextBuffer]_vars

\* Views of one array: copies and slices of the buffer, read and written.
NextShare ==
    \/ \E b, src \in BufferIds : BufferCopy(b, src)
    \/ \E b, src \in BufferIds : CopyAssign(b, src)
    \/ \E b \in BufferIds : Destroy(b)
    \/ \E b \in BufferIds, sl \in SliceIds, en \in Sizes, s \in Strides :
          \E bg \in 0..en : slice(b, sl, bg, en, s)
    \/ \E sl \in SliceIds : DestroySlice(sl)
    \/ \E build \in HookBuilds, b \in BufferIds, i \in Indices :
          SubscriptRead(build, b, i)
    \/ \E build \in HookBuilds, b \in BufferIds, i \in Indices, x \in Values :
          SubscriptWrite(build, b, i, x)
    \/ \E build \in HookBuilds, sl \in SliceIds, k \in Indices : SliceRead(build, sl, k)
    \/ \E build \in HookBuilds, sl \in SliceIds, k \in Indices, x \in Values :
          SliceWrite(build, sl, k, x)

SpecShare == InitView /\ [][NextShare]_vars

\* The bounds-check macro and its hook, in every build.
NextAssert ==
    \/ \E build \in Builds, cond \in BOOLEAN, file \in Files, line \in Lines,
          text \in Texts, fails \in BOOLEAN :
          CallAssert(build, cond, file, line, text, fails)
    \/ \E file \in Files, line \in Lines, condition \in {0, 1},
          text \in Texts, fails \in BOOLEAN :
          CallHook(file, line, condition, text, fails)

SpecAssert == Init /\ [][NextAssert]_vars

\* ------------------------------------------------------------------ claims
\* The owners of array a: the buffers and slices that hold it, and the caller's
\* handle.
Holders(a) ==
    Cardinality({b \in BufferIds : buffers[b].alive /\ buffers[b].mMemory = a})
    + Cardinality({sl \in SliceIds : slices[sl].alive /\ slices[sl].mMemory = a})
    + (IF handle = a THEN 1 ELSE 0)

\* The element a pointer designates.
Deref(h, ptr) == h[ptr.base].data[ptr.off + 1]

\* The address slice[k] designates.
SliceElementPtr(sl, k) == Ptr(sl.mMemory, SliceIndex(sl, k))

\* The int the hook was given for the condition.
AsInt(c) == IF c THEN 1 ELSE 0

\* C1: a Buffer constructed with size n, by any of the four sized constructors,
\* reports size() == n and size_of(buffer) == n * sizeof(T) (a size_t product).
C1_SizeAfterConstruction ==
    ret.op = "ctor" =>
        /\ size(buffers[ret.view]) = ret.args[1]
        /\ size_of(buffers[ret.view]) = SizeT(ret.args[1] * SizeofT)

\* C1's case: a buffer just allocated with the largest size, and its byte count.
C1_Witness ==
    /\ ret.op = "ctor" /\ ret.args[1] = MaxSize
    /\ buffers[ret.view].mMemory # Null
    /\ size_of(buffers[ret.view]) = MaxSize * SizeofT

\* C2: in a build with the exception-raising strategy, operator[] with an index
\* outside [0, n) raises an out-of-range error, and with an index inside it
\* returns the element at that position.
C2_SubscriptRaises ==
    (ret.op \in {"read", "write"} /\ ret.build \in HookBuilds) =>
        IF InBounds(buffers[ret.view], ret.args[1])
        THEN /\ ret.outcome = "ok"
             /\ Ptr(ret.base, ret.off) = ElementPtr(buffers[ret.view], ret.args[1])
        ELSE /\ ret.outcome = "raise"
             /\ ret.err.kind = "OutOfRangeError"

\* C3: the error assert_hook raises carries the formatted diagnostic whenever
\* formatting succeeds, and the fixed fallback string only when formatting fails.
C3_FormattedMessage ==
    (ret.op \in {"assert", "hook"} /\ ret.hook = 1) =>
        ret.err.what = IF ret.args[5] THEN OUT_OF_RANGE_STRING
                       ELSE Format(ret.args[2], ret.args[3], AsInt(ret.args[1]),
                                   ret.args[4])

\* C4: the array is live as long as a buffer, a slice or the caller's handle
\* holds it, and is released exactly once, when the last of them is gone.
C4_SharedOwnership ==
    \A a \in AllocIds :
        /\ heap[a].rel <= 1
        /\ Holders(a) > 0 => heap[a].st = "live"
        /\ heap[a].st = "live" => Holders(a) > 0
        /\ heap[a].st = "released" <=> heap[a].rel = 1

\* C4's case: the buffer was destroyed and a slice cut from it still holds the
\* live array, alone.
C4_Witness ==
    /\ ret.op = "destroy"
    /\ \E sl \in SliceIds :
          /\ slices[sl].alive /\ Live(heap, slices[sl].mMemory)
          /\ Holders(slices[sl].mMemory) = 1

\* C5: for s = buffer.slice<S>(b, e) with 0 <= b <= e <= n, s.size() is e - b and
\* s[k] is the element buffer[b + k*S], for every k in [0, s.size()) with
\* b + k*S < n.
C5_SliceAliases ==
    (ret.op = "slice" /\ ret.args[2] <= ret.args[3]
       /\ ret.args[3] <= size(buffers[ret.args[1]])) =>
        LET buf == buffers[ret.args[1]]
            sl  == slices[ret.view]
            bg  == ret.args[2]
            S   == ret.args[4] IN
          /\ slice_size(sl) = ret.args[3] - bg
          /\ \A k \in 0..(slice_size(sl) - 1) :
                bg + k * S < size(buf) =>
                    SliceElementPtr(sl, k) = ElementPtr(buf, bg + k * S)

\* C5's case: a stride-2 slice of the whole buffer whose element 1 is buffer[2].
C5_Witness ==
    /\ ret.op = "slice" /\ ret.args[2] = 0 /\ ret.args[4] = 2
    /\ ret.args[3] = size(buffers[ret.args[1]])
    /\ size(buffers[ret.args[1]]) > 2
    /\ SliceElementPtr(slices[ret.view], 1) = ElementPtr(buffers[ret.args[1]], 2)

\* C6: every slice made by slice<S>(b, e) with b <= e <= n satisfies
\* origin_offset + extent * stride <= the array's true element count.
C6_SliceWithinArray ==
    (ret.op = "slice" /\ ret.args[2] <= ret.args[3]
       /\ ret.args[3] <= size(buffers[ret.args[1]])
       /\ Live(heap, slices[ret.view].mMemory)) =>
        LET sl == slices[ret.view] IN
          sl.origin_offset + sl.extent * sl.stride <= heap[sl.mMemory].count

C8_BeginEndSpan ==
    /\ \A b \in BufferIds : buffers[b].alive =>
          LET buf == buffers[b] IN
            /\ begin(buf).base = buf.mMemory /\ end(buf).base = buf.mMemory
            /\ end(buf).off - begin(buf).off = size(buf)
            /\ \A i \in 0..(size(buf) - 1) :
                  Ptr(begin(buf).base, begin(buf).off + i) = ElementPtr(buf, i)
            /\ size(buf) = 0 => begin(buf) = end(buf)
    /\ ret.op = "iter" =>
          LET buf == buffers[ret.view] IN
            /\ ret.val <= size(buf)
            /\ Ptr(ret.base, ret.off) = ElementPtr(buf, ret.val)
            /\ (Ptr(ret.base, ret.off) = end(buf)) <=> (ret.val = size(buf))
    /\ ret.op = "begin" => Ptr(ret.base, ret.off) = ElementPtr(buffers[ret.view], 0)
    /\ ret.op = "end" =>
          Ptr(ret.base, ret.off) = ElementPtr(buffers[ret.view], size(buffers[ret.view]))

\* C8's case: a traversal of a buffer of the largest size has met end().
C8_Witness ==
    /\ ret.op = "iter" /\ ret.val = MaxSize
    /\ buffers[ret.view].mMemory # Null
    /\ Ptr(ret.base, ret.off) = end(buffers[ret.view])

\* C9: with bounds checking disabled the macro never raises and never calls the
\* hook; with the hook strategy it calls assert_hook exactly when cond is false;
\* every call of assert_hook ends by raising an OutOfRangeError.
C9_OneStrategy ==
    /\ ret.op = "assert" =>
          /\ ~ret.build.usesAssert => (ret.hook = 0 /\ ret.outcome = "ok")
          /\ ret.build \in HookBuilds =>
                /\ (ret.hook = 1) <=> ~ret.args[1]
                /\ ret.args[1] => ret.outcome = "ok"
          /\ ret.build \notin HookBuilds => ret.hook = 0
    /\ ret.hook = 1 =>
          /\ ret.outcome = "raise"
          /\ ret.err.kind = "OutOfRangeError"

\* C9's case: the hook was called for a false condition, formatting failed, and
\* what came out is still an OutOfRangeError.
C9_Witness ==
    /\ ret.op = "assert" /\ ret.build \in HookBuilds
    /\ ~ret.args[1] /\ ret.args[5]
    /\ ret.hook = 1 /\ ret.err.kind = "OutOfRangeError"

\* C10: operator[], begin(), end(), size(), size_of() and slice<S>(b, e) leave
\* every buffer's size and handle as they were; slice() changes nothing in the
\* heap but the owner count of the array it shares.
C10_AccessorsFrame ==
    [][(ret'.op \in {"read", "write", "begin", "end", "size", "size_of",
                     "iter", "slice"}) =>
          /\ buffers' = buffers
          /\ ret'.op = "slice" =>
                \A a \in AllocIds : [heap'[a] EXCEPT !.use = heap[a].use] = heap[a]]_vars

\* C10's case: an out-of-range slice request was served and the buffer is as
\* it was constructed, with one more owner of its array.
C10_Witness ==
    /\ ret.op = "slice" /\ ret.args[3] > size(buffers[ret.args[1]])
    /\ buffers[ret.args[1]].mMemory # Null
    /\ heap[buffers[ret.args[1]].mMemory].use = 2
====
